---- MODULE Spec2Model ----
(***************************************************************************)
(* Authentication and lockout core of event_manager:                       *)
(*   app/models/user_model.py   UserRole, User (lockout fields, has_role)  *)
(*   app/services/jwt_service.py create_access_token, decode_token         *)
(*   tests/conftest.py          the user fixtures and the token fixtures   *)
(* The login flow (attempt_login, record_failure, record_success) and the  *)
(* authorization check are not part of these files; they are modelled from *)
(* sections 4.3, 4.4 and 5 of the specification and marked as such.        *)
(***************************************************************************)
EXTENDS Integers, Sequences, FiniteSets, TLC

(***************************************************************************)
(* Bounds of the model.                                                    *)
(***************************************************************************)
MaxThreshold == 3       \* max_login_attempts ranges over 1..MaxThreshold
MaxFailed == 5          \* cap on failed_login_attempts
MaxNow == 6             \* the clock runs over 0..MaxNow ticks
MaxProcs == 3           \* concurrent login attempts on one account
MaxDelta == 3           \* expires_delta ranges over -1..MaxDelta ticks
MaxLowered == 2         \* leading characters of a role name given in either case
MaxExpireMinutes == 1   \* access_token_expire_minutes ranges over 1..MaxExpireMinutes
TicksPerSecond == 2     \* resolution of the clock: ticks in one second

VARIABLES
    max_login_attempts, \* settings.max_login_attempts (conftest.py line 86)
    now,                \* the clock, in ticks
    user,               \* the User row
    prev,               \* the User row before the last operation
    op,                 \* the last operation applied to the User row
    outcome,            \* what the last login attempt returned
    verify_called,      \* whether the last login attempt verified credentials
    credentials_ok,     \* whether the last login attempt had the right password
    streak,             \* record_failure transitions in a row since a fresh row
    role_name,          \* argument of the last has_role call
    has_role_result,    \* result of the last has_role call
    pc,                 \* concurrent attempts: position of each attempt
    loaded,             \* concurrent attempts: the row each attempt loaded
    wrote,              \* concurrent attempts: counter value each one wrote
    user0,              \* concurrent attempts: the row before any attempt
    access_token_expire_minutes, \* settings.access_token_expire_minutes
    tpc,                \* token flow: start, issued, decoded, authorized
    data_in,            \* the dict passed to create_access_token
    data,               \* the caller's dict after create_access_token returned
    expires_delta,      \* the expires_delta passed to create_access_token
    issued_at,          \* the clock when create_access_token ran
    token,              \* what create_access_token returned
    presented,          \* the token passed to decode_token
    decoded,            \* what decode_token returned (at the clock's value)
    required,           \* the role the authorization check required
    authorized          \* what the authorization check answered

lockVars == <<max_login_attempts, now, user, prev, op, outcome, verify_called,
              credentials_ok, streak, role_name, has_role_result>>
concVars == <<pc, loaded, wrote, user0>>
tokenVars == <<access_token_expire_minutes, tpc, data_in, data, expires_delta,
               issued_at, token, presented, decoded, required, authorized>>
vars == <<lockVars, concVars, tokenVars>>

(***************************************************************************)
(* Python's None and an optional value.                                    *)
(***************************************************************************)
None == <<>>
Some(x) == <<x>>

(***************************************************************************)
(* class UserRole(Enum)                                                    *)
(***************************************************************************)
UserRole == {"ANONYMOUS", "AUTHENTICATED", "MANAGER", "ADMIN"}

(***************************************************************************)
(* The authentication-relevant columns of User, with the column defaults.  *)
(***************************************************************************)
NewUser(role, is_locked, failed) ==
    [role |-> role,
     last_login_at |-> None,
     failed_login_attempts |-> failed,
     is_locked |-> is_locked]

\* conftest.py: user, verified_user, unverified_user, admin_user, manager_user
FreshUsers == {NewUser(r, FALSE, 0) : r \in {"AUTHENTICATED", "MANAGER", "ADMIN"}}

\* conftest.py: locked_user
LockedUserFixture(M) == NewUser("AUTHENTICATED", TRUE, M)

(***************************************************************************)
(* User.lock_account, User.unlock_account, User.has_role                   *)
(***************************************************************************)
lock_account(self) == [self EXCEPT !.is_locked = TRUE]

unlock_account(self) == [self EXCEPT !.is_locked = FALSE]

RoleRank(r) ==
    CASE r = "ANONYMOUS" -> 0
      [] r = "AUTHENTICATED" -> 1
      [] r = "MANAGER" -> 2
      [] r = "ADMIN" -> 3

has_role_ordered(self, role) == RoleRank(self.role) >= RoleRank(role)

has_role(self, role) == self.role = role

(***************************************************************************)
(* Lockout policy (specification 4.3): the transitions of a login attempt. *)
(***************************************************************************)
record_failure(self, M) ==
    LET n == self.failed_login_attempts + 1
        u == [self EXCEPT !.failed_login_attempts = n]
    IN  IF n >= M THEN lock_account(u) ELSE u

record_success(self, t) ==
    [self EXCEPT !.failed_login_attempts = 0, !.last_login_at = Some(t)]

attempt_login_skips_lock_check(self, correct, M, t) ==
    IF correct
    THEN [user |-> record_success(self, t), outcome |-> "success", verified |-> TRUE]
    ELSE [user |-> record_failure(self, M), outcome |-> "credential_failure",
          verified |-> TRUE]

attempt_login(self, correct, M, t) ==
    IF self.is_locked
    THEN [user |-> self, outcome |-> "locked_failure", verified |-> FALSE]
    ELSE IF correct
    THEN [user |-> record_success(self, t), outcome |-> "success", verified |-> TRUE]
    ELSE [user |-> record_failure(self, M), outcome |-> "credential_failure",
          verified |-> TRUE]

(***************************************************************************)
(* Strings are sequences of one-character strings; str.upper.              *)
(***************************************************************************)
LowerCase == <<"a", "b", "c", "d", "e", "f", "g", "h", "i", "j", "k", "l", "m",
               "n", "o", "p", "q", "r", "s", "t", "u", "v", "w", "x", "y", "z">>
UpperCase == <<"A", "B", "C", "D", "E", "F", "G", "H", "I", "J", "K", "L", "M",
               "N", "O", "P", "Q", "R", "S", "T", "U", "V", "W", "X", "Y", "Z">>

IsLower(c) == \E i \in DOMAIN LowerCase : LowerCase[i] = c
IsUpper(c) == \E i \in DOMAIN UpperCase : UpperCase[i] = c

upper_char(c) ==
    IF IsLower(c) THEN UpperCase[CHOOSE i \in DOMAIN LowerCase : LowerCase[i] = c] ELSE c

lower_char(c) ==
    IF IsUpper(c) THEN LowerCase[CHOOSE i \in DOMAIN UpperCase : UpperCase[i] = c] ELSE c

upper(s) == [i \in 1..Len(s) |-> upper_char(s[i])]

\* UserRole.<member>.name
Name(r) ==
    CASE r = "ANONYMOUS" -> <<"A", "N", "O", "N", "Y", "M", "O", "U", "S">>
      [] r = "AUTHENTICATED" ->
            <<"A", "U", "T", "H", "E", "N", "T", "I", "C", "A", "T", "E", "D">>
      [] r = "MANAGER" -> <<"M", "A", "N", "A", "G", "E", "R">>
      [] r = "ADMIN" -> <<"A", "D", "M", "I", "N">>

(***************************************************************************)
(* Results of a call: a dict, None, or an exception leaving the function.  *)
(***************************************************************************)
NoneResult == [tag |-> "None"]
Dict(d) == [tag |-> "dict", value |-> d]
Raise(e) == [tag |-> "raise", exc |-> e]

\* the exception classes jwt.decode raises; all derive from jwt.PyJWTError
PyJWTError == {"DecodeError", "InvalidSignatureError", "ExpiredSignatureError"}

(***************************************************************************)
(* settings: the signing key; another key stands for any other signer.     *)
(***************************************************************************)
jwt_secret_key == "settings.jwt_secret_key"
other_key == "another key"

SecondsPerMinute == 60

\* timedelta(minutes=m), in ticks
timedelta_minutes(m) == m * SecondsPerMinute * TicksPerSecond

(***************************************************************************)
(* jwt.encode: a datetime exp becomes timegm(exp.utctimetuple()), whole    *)
(* seconds; the signature binds the key and the signed payload.            *)
(***************************************************************************)
Signature(payload, key) == [key |-> key, payload |-> payload]

jwt_encode(payload, key) ==
    LET claims == IF "exp" \in DOMAIN payload
                  THEN ("exp" :> (payload["exp"] \div TicksPerSecond)) @@ payload
                  ELSE payload
    IN  [wellformed |-> TRUE, payload |-> claims, sig |-> Signature(claims, key)]

Malformed == [wellformed |-> FALSE]

(***************************************************************************)
(* jwt.decode at clock t: segments (DecodeError), then the signature       *)
(* (InvalidSignatureError), then the exp claim, in seconds, against the    *)
(* clock: ExpiredSignatureError when exp <= now (PyJWT 2).                 *)
(***************************************************************************)
jwt_decode(tok, key, t) ==
    IF ~tok.wellformed THEN Raise("DecodeError")
    ELSE IF tok.sig # Signature(tok.payload, key) THEN Raise("InvalidSignatureError")
    ELSE IF "exp" \in DOMAIN tok.payload /\ tok.payload["exp"] * TicksPerSecond <= t
    THEN Raise("ExpiredSignatureError")
    ELSE Dict(tok.payload)

(***************************************************************************)
(* create_access_token(data, expires_delta) at clock t. The result holds   *)
(* the token and the caller's dict as the call leaves it.                  *)
(***************************************************************************)
Truthy(delta) == delta # None /\ delta[1] # 0

create_access_token_keeps_case(d, delta, t, minutes) ==
    LET expire == t + (IF Truthy(delta) THEN delta[1] ELSE timedelta_minutes(minutes))
        to_encode == ("exp" :> expire) @@ d
    IN  [token |-> jwt_encode(to_encode, jwt_secret_key), data |-> d]

create_access_token(d, delta, t, minutes) ==
    LET to_encode0 == d
        to_encode1 == IF "role" \in DOMAIN to_encode0
                      THEN ("role" :> upper(to_encode0["role"])) @@ to_encode0
                      ELSE to_encode0
        expire == t + (IF Truthy(delta) THEN delta[1] ELSE timedelta_minutes(minutes))
        to_encode2 == ("exp" :> expire) @@ to_encode1
    IN  [token |-> jwt_encode(to_encode2, jwt_secret_key), data |-> d]

(***************************************************************************)
(* decode_token(token) at clock t.                                         *)
(***************************************************************************)
decode_token_catches_expiry_only(tok, t) ==
    LET r == jwt_decode(tok, jwt_secret_key, t)
    IN  IF r.tag = "raise" /\ r.exc = "ExpiredSignatureError" THEN NoneResult ELSE r

decode_token_unverified(tok, t) ==
    IF tok.wellformed THEN Dict(tok.payload) ELSE NoneResult

decode_token(tok, t) ==
    LET r == jwt_decode(tok, jwt_secret_key, t)
    IN  IF r.tag = "raise" /\ r.exc \in PyJWTError THEN NoneResult ELSE r

(***************************************************************************)
(* Authorization check (specification 4.4) on what decode_token returned.  *)
(***************************************************************************)
is_valid(role) == \E r \in UserRole : Name(r) = role

authorize(result, need) ==
    /\ result.tag = "dict"
    /\ "role" \in DOMAIN result.value
    /\ is_valid(result.value["role"])
    /\ has_role([role |-> CHOOSE r \in UserRole : Name(r) = result.value["role"]], need)

(***************************************************************************)
(* Sequential account operations.                                          *)
(***************************************************************************)
ConcIdle ==
    /\ pc = [p \in 1..MaxProcs |-> "idle"]
    /\ loaded = [p \in 1..MaxProcs |-> None]
    /\ wrote = [p \in 1..MaxProcs |-> None]

TokenIdle ==
    /\ tpc = "start"
    /\ data_in = <<>>
    /\ data = <<>>
    /\ expires_delta = None
    /\ issued_at = 0
    /\ token = Malformed
    /\ presented = Malformed
    /\ decoded = NoneResult
    /\ required = "ANONYMOUS"
    /\ authorized = FALSE

LockIdle ==
    /\ prev = user
    /\ op = "new"
    /\ outcome = "none"
    /\ verify_called = FALSE
    /\ credentials_ok = FALSE
    /\ streak = IF user.is_locked THEN None ELSE Some(user.failed_login_attempts)
    /\ role_name = "none"
    /\ has_role_result = FALSE

InitLockout ==
    /\ max_login_attempts \in 1..MaxThreshold
    /\ now = 0
    /\ user \in FreshUsers
    /\ LockIdle
    /\ ConcIdle
    /\ user0 = user
    /\ access_token_expire_minutes = 1
    /\ TokenIdle

AttemptLogin ==
    \E correct \in BOOLEAN :
        LET r == attempt_login(user, correct, max_login_attempts, now)
        IN  /\ user.failed_login_attempts < MaxFailed
            /\ prev' = user
            /\ user' = r.user
            /\ outcome' = r.outcome
            /\ verify_called' = r.verified
            /\ credentials_ok' = correct
            /\ streak' = IF r.outcome = "success" THEN Some(0)
                         ELSE IF r.outcome = "credential_failure" /\ streak # None
                         THEN Some(streak[1] + 1)
                         ELSE None
            /\ op' = "attempt_login"
            /\ UNCHANGED <<max_login_attempts, now, role_name, has_role_result,
                           concVars, tokenVars>>

LockAccount ==
    /\ prev' = user
    /\ user' = lock_account(user)
    /\ op' = "lock_account"
    /\ streak' = None
    /\ UNCHANGED <<max_login_attempts, now, outcome, verify_called, credentials_ok,
                   role_name, has_role_result, concVars, tokenVars>>

UnlockAccount ==
    /\ prev' = user
    /\ user' = unlock_account(user)
    /\ op' = "unlock_account"
    /\ streak' = None
    /\ UNCHANGED <<max_login_attempts, now, outcome, verify_called, credentials_ok,
                   role_name, has_role_result, concVars, tokenVars>>

HasRole ==
    \E r \in UserRole :
        /\ role_name' = r
        /\ has_role_result' = has_role(user, r)
        /\ UNCHANGED <<max_login_attempts, now, user, prev, op, outcome, verify_called,
                       credentials_ok, streak, concVars, tokenVars>>

Tick ==
    /\ now < MaxNow
    /\ now' = now + 1
    /\ UNCHANGED <<max_login_attempts, user, prev, op, outcome, verify_called,
                   credentials_ok, streak, role_name, has_role_result, concVars,
                   tokenVars>>

Next == AttemptLogin \/ LockAccount \/ UnlockAccount \/ Tick

Spec == InitLockout /\ [][Next]_vars

(***************************************************************************)
(* Concurrent failed login attempts on one account (specification 5).      *)
(* An attempt loads the row, is turned away if the row is locked, has its  *)
(* wrong password verified, and then commits record_failure as one atomic  *)
(* read-modify-write of the row as it is at that moment.                   *)
(***************************************************************************)
commit_failure_stale(current, snapshot, M) ==
    [user |-> record_failure(snapshot, M), outcome |-> "credential_failure"]

commit_failure(current, snapshot, M) ==
    IF current.is_locked
    THEN [user |-> current, outcome |-> "locked_failure"]
    ELSE [user |-> record_failure(current, M), outcome |-> "credential_failure"]

Procs == 1..MaxProcs

InitConc ==
    /\ max_login_attempts \in 1..MaxThreshold
    /\ now = 0
    /\ user \in {NewUser("AUTHENTICATED", FALSE, c) : c \in 0..(max_login_attempts - 1)}
                \cup {LockedUserFixture(max_login_attempts)}
    /\ LockIdle
    /\ ConcIdle
    /\ user0 = user
    /\ access_token_expire_minutes = 1
    /\ TokenIdle

Load(p) ==
    /\ pc[p] = "idle"
    /\ loaded' = [loaded EXCEPT ![p] = Some(user)]
    /\ pc' = [pc EXCEPT ![p] = IF user.is_locked THEN "rejected" ELSE "verified"]
    /\ UNCHANGED <<lockVars, wrote, user0, tokenVars>>

Commit(p) ==
    /\ pc[p] = "verified"
    /\ LET r == commit_failure(user, loaded[p][1], max_login_attempts)
       IN  /\ user' = r.user
           /\ wrote' = [wrote EXCEPT ![p] =
                            IF r.outcome = "credential_failure"
                            THEN Some(r.user.failed_login_attempts) ELSE None]
           /\ pc' = [pc EXCEPT ![p] =
                            IF r.outcome = "credential_failure"
                            THEN "failed" ELSE "rejected"]
    /\ UNCHANGED <<max_login_attempts, now, prev, op, outcome, verify_called,
                   credentials_ok, streak, role_name, has_role_result, loaded, user0,
                   tokenVars>>

NextConc == \E p \in Procs : Load(p) \/ Commit(p)

SpecConc == InitConc /\ [][NextConc]_vars

(***************************************************************************)
(* has_role on any User row.                                               *)
(***************************************************************************)
InitRole ==
    /\ max_login_attempts \in 1..MaxThreshold
    /\ now = 0
    /\ user \in {NewUser(r, l, c) : r \in UserRole, l \in BOOLEAN, c \in 0..MaxFailed}
    /\ LockIdle
    /\ ConcIdle
    /\ user0 = user
    /\ access_token_expire_minutes = 1
    /\ TokenIdle

NextRole == HasRole

SpecRole == InitRole /\ [][NextRole]_vars

(***************************************************************************)
(* Token flow: issue, let time pass, decode a presented token, authorize.  *)
(***************************************************************************)
Subjects == {<<"a", "@", "x">>, <<"j", "@", "x">>}

\* a role name with some of its leading characters, or all of them, lowered
LowerAt(s, S) == [i \in 1..Len(s) |-> IF i \in S THEN lower_char(s[i]) ELSE s[i]]

CaseVariants(s) ==
    {LowerAt(s, S) : S \in SUBSET {i \in 1..Len(s) : i <= MaxLowered}}
        \cup {LowerAt(s, 1..Len(s))}

RoleInputs ==
    UNION {CaseVariants(Name(r)) : r \in UserRole}
        \cup {<<>>, <<"R", "o", "o", "t">>, <<"A", "D", "M", "I", "N", "S">>}

DataInputs ==
    {[sub |-> s, role |-> r] : s \in Subjects, r \in RoleInputs}
        \cup {[sub |-> s] : s \in Subjects}

Deltas == {None} \cup {Some(d) : d \in (-1)..MaxDelta}

\* what a caller may present once a token was issued
Presentable(tok) ==
    {tok,
     [tok EXCEPT !.payload = ("role" :> Name("ADMIN")) @@ tok.payload],
     [tok EXCEPT !.payload = ("sub" :> <<"r", "@", "x">>) @@ tok.payload],
     [tok EXCEPT !.sig = Signature(tok.payload, other_key)],
     Malformed}

InitToken ==
    /\ max_login_attempts = 1
    /\ now = 0
    /\ user = NewUser("AUTHENTICATED", FALSE, 0)
    /\ LockIdle
    /\ ConcIdle
    /\ user0 = user
    /\ access_token_expire_minutes \in 1..MaxExpireMinutes
    /\ TokenIdle

Issue ==
    /\ tpc = "start"
    /\ \E d \in DataInputs, delta \in Deltas :
        LET r == create_access_token(d, delta, now, access_token_expire_minutes)
        IN  /\ data_in' = d
            /\ data' = r.data
            /\ expires_delta' = delta
            /\ token' = r.token
    /\ issued_at' = now
    /\ tpc' = "issued"
    /\ UNCHANGED <<lockVars, concVars, access_token_expire_minutes, presented,
                   decoded, required, authorized>>

Decode ==
    /\ tpc = "issued"
    /\ \E tok \in Presentable(token) :
        /\ presented' = tok
        /\ decoded' = decode_token(tok, now)
    /\ tpc' = "decoded"
    /\ UNCHANGED <<lockVars, concVars, access_token_expire_minutes, data_in, data,
                   expires_delta, issued_at, token, required, authorized>>

Authorize ==
    /\ tpc = "decoded"
    /\ \E need \in UserRole :
        /\ required' = need
        /\ authorized' = authorize(decoded, need)
    /\ tpc' = "authorized"
    /\ UNCHANGED <<lockVars, concVars, access_token_expire_minutes, data_in, data,
                   expires_delta, issued_at, token, presented, decoded>>

Pass ==
    /\ tpc \in {"start", "issued"}
    /\ now < MaxNow
    /\ now' = now + 1
    /\ UNCHANGED <<max_login_attempts, user, prev, op, outcome, verify_called,
                   credentials_ok, streak, role_name, has_role_result, concVars,
                   tokenVars>>

NextToken == Issue \/ Decode \/ Authorize \/ Pass

SpecToken == InitToken /\ [][NextToken]_vars

(***************************************************************************)
(* Properties of the lockout fields, stated for Spec.                   *)
(***************************************************************************)

\* C1: a locked account has failed_login_attempts >= max_login_attempts in
\* every state reachable by the account operations. User.lock_account sets
\* is_locked alone, so locking a fresh account violates it.
LockedImpliesThreshold ==
    user.is_locked => user.failed_login_attempts >= max_login_attempts

\* C2: whenever is_locked goes from true to false, in particular by
\* unlock_account on a locked account, failed_login_attempts is 0 afterwards.
\* User.unlock_account leaves the counter as it was.
UnlockResetsCounter ==
    (prev.is_locked /\ ~user.is_locked) =>
        (user.failed_login_attempts = 0 /\ ~user.is_locked)

\* After k record_failure transitions in a row on a fresh open account the
\* counter is k and the account is locked exactly when k has reached the
\* threshold (the part of C3 about consecutive failures; it holds).
ConsecutiveFailuresLock ==
    streak # None =>
        /\ user.failed_login_attempts = streak[1]
        /\ user.is_locked <=> streak[1] >= max_login_attempts

\* C3: M-1 consecutive failures leave a fresh account open, the M-th locks it
\* with the counter at M, and no reachable state has the counter at or above
\* the threshold with is_locked false. The last part fails after
\* unlock_account, which keeps the counter (see C2).
ThresholdReachedImpliesLocked ==
    /\ ConsecutiveFailuresLock
    /\ user.failed_login_attempts >= max_login_attempts => user.is_locked

\* C4: a login attempt on a locked account, with right or wrong credentials,
\* returns the lockout outcome without verifying credentials and leaves
\* is_locked, failed_login_attempts and last_login_at as they were.
LockedLoginRejected ==
    (op = "attempt_login" /\ prev.is_locked) =>
        /\ outcome = "locked_failure"
        /\ ~verify_called
        /\ user.is_locked = prev.is_locked
        /\ user.failed_login_attempts = prev.failed_login_attempts
        /\ user.last_login_at = prev.last_login_at

\* C4 witness: the right password was given to a locked account and turned away.
LockedLoginRejectedWitness ==
    /\ op = "attempt_login"
    /\ prev.is_locked
    /\ credentials_ok
    /\ outcome = "locked_failure"
    /\ user.is_locked

(***************************************************************************)
(* Concurrent failed attempts, stated for SpecConc.                     *)
(***************************************************************************)
Finished == {p \in Procs : pc[p] \in {"failed", "rejected"}}

\* the row after k failed attempts one after the other
SerialResult(u0, k, M) ==
    IF u0.is_locked \/ k = 0 THEN u0
    ELSE IF u0.failed_login_attempts + k >= M
    THEN [u0 EXCEPT !.failed_login_attempts = M, !.is_locked = TRUE]
    ELSE [u0 EXCEPT !.failed_login_attempts = u0.failed_login_attempts + k]

Decoded == tpc \in {"decoded", "authorized"}

\* what entitles a token to be accepted at clock t
Genuine(tok, t) ==
    /\ tok.wellformed
    /\ tok.sig.key = jwt_secret_key
    /\ tok.sig.payload = tok.payload
    /\ "exp" \in DOMAIN tok.payload => t < tok.payload["exp"] * TicksPerSecond

\* C6: a token issued at t0 with a supplied ttl T is accepted at every instant
\* before t0 + T and rejected at every instant from t0 + T on.
ExpiryBoundaryExact ==
    (Decoded /\ presented = token /\ expires_delta # None) =>
        (decoded.tag = "dict" <=> now < issued_at + expires_delta[1])

\* C7: decode_token never raises, returns the one failure value None for a
\* malformed, a wrongly signed and an expired token, and returns the claims
\* only for a well-formed, correctly signed, unexpired token.
DecodeNeverRaises ==
    Decoded =>
        /\ decoded.tag \in {"None", "dict"}
        /\ ~Genuine(presented, now) => decoded = NoneResult
        /\ Genuine(presented, now) => decoded = Dict(presented.payload)

\* C7 witness: the issued token, decoded once expired, gives None.
DecodeNeverRaisesWitness ==
    /\ tpc = "decoded"
    /\ presented = token
    /\ token.payload["exp"] * TicksPerSecond <= now
    /\ decoded = NoneResult

\* C9: decoding a freshly issued, unexpired token built from {sub, role}
\* gives the same sub and the role in upper case, whatever the case of the
\* role given, and the caller's dict is as it was before the call.
RoundTrip ==
    /\ tpc # "start" => data = data_in
    /\ (Decoded /\ presented = token /\ {"sub", "role"} \subseteq DOMAIN data_in
            /\ now < token.payload["exp"] * TicksPerSecond) =>
        /\ decoded.tag = "dict"
        /\ decoded.value["sub"] = data_in["sub"]
        /\ decoded.value["role"] = upper(data_in["role"])
        /\ Len(decoded.value["role"]) = Len(data_in["role"])
        /\ \A i \in 1..Len(data_in["role"]) :
                /\ ~IsLower(decoded.value["role"][i])
                /\ lower_char(decoded.value["role"][i]) = lower_char(data_in["role"][i])

\* C9 witness: a role given in mixed case came back in upper case.
RoundTripWitness ==
    /\ tpc = "decoded"
    /\ presented = token
    /\ "role" \in DOMAIN data_in
    /\ data_in["role"] = <<"a", "D", "M", "I", "N">>
    /\ decoded.tag = "dict"
    /\ decoded.value["role"] = Name("ADMIN")

====
